---- MODULE Spec2Model ----
(***************************************************************************)
(* Contact-form backend (contact-backend/index.js): the POST /send handler, *)
(* its email format validator and its input sanitizer.                      *)
(*                                                                          *)
(* A JavaScript string is a sequence of one-character strings.  A request   *)
(* body field is a JavaScript value: a record [t |-> type, v |-> text],     *)
(* where text is the value's String() conversion (the string itself for a   *)
(* string, "1" for the number 1, the joined elements for an array).         *)
(***************************************************************************)
EXTENDS Naturals, Sequences, FiniteSets

(* ------------------------------ bounds --------------------------------- *)

\* longest string handed to sanitizeInput on its own
MaxLen == 4
\* longest string in name, subject, message of a request body
MaxTextLen == 1
\* longest string in email of a request body
MaxEmailLen == 6
\* number of POST /send requests that may be in flight together
MaxReq == 2

(* ----------------------------- characters ------------------------------ *)

Chars == {"a", " ", "<", ">", "@", "."}
TextChars == {"a", " ", "<"}
EmailChars == {"a", " ", "<", "@", "."}

\* \s of a JavaScript regular expression, and the white space trim() removes
IsSpace(c) == c \in {" ", "\t", "\n", "\r"}

Strings(cs, n) == UNION {[1..k -> cs] : k \in 0..n}

(* --------------------------- JavaScript values ------------------------- *)

JsString(s) == [t |-> "string", v |-> s]
JsUndefined == [t |-> "undefined", v |-> <<"u","n","d","e","f","i","n","e","d">>]
JsNull == [t |-> "null", v |-> <<"n","u","l","l">>]
JsFalse == [t |-> "boolean", v |-> <<"f","a","l","s","e">>]
JsTrue == [t |-> "boolean", v |-> <<"t","r","u","e">>]
JsZero == [t |-> "number", v |-> <<"0">>]
JsOne == [t |-> "number", v |-> <<"1">>]
\* an array is written by the String() conversion of its elements, joined
JsArray(s) == [t |-> "array", v |-> s]

\* String(value), as RegExp.prototype.test applies it to its argument
ToString(x) == x.v

\* !value is false
Truthy(x) ==
  CASE x.t = "string" -> x.v # <<>>
    [] x.t = "undefined" -> FALSE
    [] x.t = "null" -> FALSE
    [] x.t = "boolean" -> x = JsTrue
    [] x.t = "number" -> x # JsZero
    [] OTHER -> TRUE

(* ------------------------------ isValidEmail --------------------------- *)

\* One step of the matcher of /^[^\s@]+@[^\s@]+\.[^\s@]+$/ on character c.
\* Positions in the pattern: 0 before the local part, 1 inside it, 2 after
\* the '@', 3 inside the domain, 4 after the '.', 5 inside the last part.
EmailStep(S, c) ==
  LET plain == ~IsSpace(c) /\ c # "@" IN
  {q \in 0..5 :
     \/ q = 1 /\ plain /\ (0 \in S \/ 1 \in S)
     \/ q = 2 /\ c = "@" /\ 1 \in S
     \/ q = 3 /\ plain /\ (2 \in S \/ 3 \in S)
     \/ q = 4 /\ c = "." /\ 3 \in S
     \/ q = 5 /\ plain /\ (4 \in S \/ 5 \in S)}

RECURSIVE EmailRun(_, _)
EmailRun(S, s) ==
  IF s = <<>> THEN S ELSE EmailRun(EmailStep(S, Head(s)), Tail(s))

isValidEmailUnanchored(email) ==
  \E i \in 0..Len(ToString(email)) :
    5 \in EmailRun({0}, SubSeq(ToString(email), 1, i))

isValidEmail(email) == 5 \in EmailRun({0}, ToString(email))

(* ------------------------------ sanitizeInput -------------------------- *)

RECURSIVE TrimStart(_)
TrimStart(s) ==
  IF s # <<>> /\ IsSpace(Head(s)) THEN TrimStart(Tail(s)) ELSE s

RECURSIVE TrimEnd(_)
TrimEnd(s) ==
  IF s # <<>> /\ IsSpace(s[Len(s)]) THEN TrimEnd(SubSeq(s, 1, Len(s) - 1)) ELSE s

\* String.prototype.trim
Trim(s) == TrimEnd(TrimStart(s))

IsBracket(c) == c \in {"<", ">"}
NotBracket(c) == ~IsBracket(c)

\* replace(/[<>]/g, "")
StripBrackets(s) == SelectSeq(s, NotBracket)

sanitizeInputNoTrim(input) ==
  IF input.t # "string" THEN <<>> ELSE StripBrackets(input.v)

sanitizeInput(input) ==
  IF input.t # "string" THEN <<>> ELSE StripBrackets(Trim(input.v))

(* ------------------------------ request bodies ------------------------- *)

NonStrings ==
  {JsUndefined, JsNull, JsFalse, JsZero, JsTrue, JsOne, JsArray(<<"a">>)}

TextVals == NonStrings \cup {JsString(s) : s \in Strings(TextChars, MaxTextLen)}

PhoneVals == {JsUndefined, JsOne, JsString(<<"a">>)}

EmailVals ==
  NonStrings \cup {JsArray(<<"a", "@", "a", ".", "a">>)}
    \cup {JsString(s) : s \in Strings(EmailChars, MaxEmailLen)}

\* every combination of name, subject and message, with a few emails
BodiesText ==
  [name : TextVals, subject : TextVals, message : TextVals, phone : PhoneVals,
   email : {JsUndefined, JsString(<<"a">>), JsString(<<"a", "@", "a", ".", "a">>)}]

\* every email, with the other required fields present
BodiesEmail ==
  [name : {JsString(<<"a">>)}, subject : {JsString(<<"a">>)},
   message : {JsString(<<"a">>)}, phone : {JsUndefined}, email : EmailVals]

Bodies == BodiesText \cup BodiesEmail

\* the body {}
EmptyBody ==
  [name |-> JsUndefined, email |-> JsUndefined, phone |-> JsUndefined,
   subject |-> JsUndefined, message |-> JsUndefined]

\* bodies of requests in flight together: complete, bad email, {}, tagged name
ConcBodies ==
  {[EmptyBody EXCEPT !.name = JsString(<<"a">>), !.subject = JsString(<<"a">>),
                     !.message = JsString(<<"a">>),
                     !.email = JsString(<<"a", "@", "a", ".", "a">>)],
   [EmptyBody EXCEPT !.name = JsString(<<"a">>), !.subject = JsString(<<"a">>),
                     !.message = JsString(<<"a">>), !.email = JsString(<<"a">>)],
   EmptyBody,
   [EmptyBody EXCEPT !.name = JsString(<<"<", "a", ">">>),
                     !.subject = JsString(<<"a">>),
                     !.message = JsString(<<"a">>), !.phone = JsString(<<"a">>),
                     !.email = JsString(<<"a", "@", "a", ".", "a">>)]}

(* ------------------------------ the mail collaborator ------------------ *)

\* what the awaited sendEmail call may end with: success, or an error
NoError == [code |-> "", message |-> ""]
Errors ==
  {[code |-> "EAUTH", message |-> "Invalid login"],
   [code |-> "ECONNECTION", message |-> "connect ECONNREFUSED"],
   [code |-> "", message |-> "socket hang up"]}
Outcomes == {[kind |-> "resolved", err |-> NoError]}
              \cup {[kind |-> "rejected", err |-> e] : e \in Errors}
Pending == [kind |-> "pending", err |-> NoError]
NotCalled == [kind |-> "none", err |-> NoError]

(* ------------------------------ the handler ---------------------------- *)

Reqs == 1..MaxReq

VARIABLES body, pc, sent, outcome, responses, sIn, sOut

vars == <<body, pc, sent, outcome, responses, sIn, sOut>>
reqVars == <<body, pc, sent, outcome, responses>>
sanVars == <<sIn, sOut>>

MissingMsg ==
  "Missing required fields: name, email, subject, and message are required."
InvalidMsg == "Invalid email format."
SuccessMsg == "Email sent successfully"
AuthMsg == "Authentication failed. Please check email credentials."
RetryMsg == "Email sending failed. Please try again later."

Response(status, success, message) ==
  [status |-> status, success |-> success, message |-> message]

\* !name || !email || !subject || !message
MissingFieldsNoMessage(b) ==
  ~Truthy(b.name) \/ ~Truthy(b.email) \/ ~Truthy(b.subject)

MissingFieldsWithPhone(b) ==
  ~Truthy(b.name) \/ ~Truthy(b.email) \/ ~Truthy(b.phone) \/ ~Truthy(b.subject)
    \/ ~Truthy(b.message)

MissingFields(b) ==
  ~Truthy(b.name) \/ ~Truthy(b.email) \/ ~Truthy(b.subject) \/ ~Truthy(b.message)

sanitizedData(b) ==
  [name |-> sanitizeInput(b.name),
   email |-> sanitizeInput(b.email),
   phone |-> IF Truthy(b.phone) THEN sanitizeInput(b.phone) ELSE <<>>,
   subject |-> sanitizeInput(b.subject),
   message |-> sanitizeInput(b.message)]

\* replace(/\n/g, "<br>")
RECURSIVE HtmlBreaks(_)
HtmlBreaks(s) ==
  IF s = <<>> THEN <<>>
  ELSE (IF Head(s) = "\n" THEN <<"<", "b", "r", ">">> ELSE <<Head(s)>>)
         \o HtmlBreaks(Tail(s))

NotProvided == <<"N", "o", "t", " ", "p", "r", "o", "v", "i", "d", "e", "d">>

\* the argument of sendEmail: the recipient, the subject line and the fields
\* the text and html templates embed (the timestamp is left out)
Mail(d) ==
  [to |-> "EMAIL_USER",
   subject |-> <<"Customer Form Apllication: ">> \o d.subject,
   name |-> d.name, email |-> d.email,
   phone |-> IF d.phone # <<>> THEN d.phone ELSE NotProvided,
   subjectText |-> d.subject, message |-> d.message,
   htmlMessage |-> HtmlBreaks(d.message)]

\* err.code === "EAUTH" ? ... : ...
errorMessageEcho(err) == IF err.code = "EAUTH" THEN AuthMsg ELSE err.message

errorMessage(err) == IF err.code = "EAUTH" THEN AuthMsg ELSE RetryMsg

Init ==
  /\ body = [r \in Reqs |-> EmptyBody]
  /\ pc = [r \in Reqs |-> "idle"]
  /\ sent = [r \in Reqs |-> <<>>]
  /\ outcome = [r \in Reqs |-> NotCalled]
  /\ responses = [r \in Reqs |-> <<>>]
  /\ sIn = JsUndefined
  /\ sOut = <<>>

\* a POST /send request arrives; express.json has parsed its body into b
Arrive(r, b) ==
  /\ pc[r] = "idle"
  /\ body' = [body EXCEPT ![r] = b]
  /\ pc' = [pc EXCEPT ![r] = "received"]
  /\ UNCHANGED <<sent, outcome, responses, sanVars>>

\* the handler without the await: the success response follows the call at once
HandleNoAwait(r) ==
  /\ pc[r] = "received"
  /\ IF MissingFields(body[r])
     THEN /\ responses' = [responses EXCEPT ![r] = Append(@, Response(400, FALSE, MissingMsg))]
          /\ pc' = [pc EXCEPT ![r] = "done"]
          /\ UNCHANGED <<sent, outcome>>
     ELSE IF ~isValidEmail(body[r].email)
     THEN /\ responses' = [responses EXCEPT ![r] = Append(@, Response(400, FALSE, InvalidMsg))]
          /\ pc' = [pc EXCEPT ![r] = "done"]
          /\ UNCHANGED <<sent, outcome>>
     ELSE /\ sent' = [sent EXCEPT ![r] = Append(@, Mail(sanitizedData(body[r])))]
          /\ outcome' = [outcome EXCEPT ![r] = Pending]
          /\ responses' = [responses EXCEPT ![r] = Append(@, Response(200, TRUE, SuccessMsg))]
          /\ pc' = [pc EXCEPT ![r] = "done"]
  /\ UNCHANGED <<body, sanVars>>

\* the handler of request r runs up to its first response or up to the
\* await of sendEmail
Handle(r) ==
  /\ pc[r] = "received"
  /\ IF MissingFields(body[r])
     THEN /\ responses' = [responses EXCEPT ![r] = Append(@, Response(400, FALSE, MissingMsg))]
          /\ pc' = [pc EXCEPT ![r] = "done"]
          /\ UNCHANGED <<sent, outcome>>
     ELSE IF ~isValidEmail(body[r].email)
     THEN /\ responses' = [responses EXCEPT ![r] = Append(@, Response(400, FALSE, InvalidMsg))]
          /\ pc' = [pc EXCEPT ![r] = "done"]
          /\ UNCHANGED <<sent, outcome>>
     ELSE /\ sent' = [sent EXCEPT ![r] = Append(@, Mail(sanitizedData(body[r])))]
          /\ outcome' = [outcome EXCEPT ![r] = Pending]
          /\ pc' = [pc EXCEPT ![r] = "awaiting"]
          /\ UNCHANGED responses
  /\ UNCHANGED <<body, sanVars>>

\* the sendEmail call of request r resolves, or fails with an error
Settle(r, o) ==
  /\ pc[r] = "awaiting"
  /\ outcome' = [outcome EXCEPT ![r] = o]
  /\ pc' = [pc EXCEPT ![r] = "settled"]
  /\ UNCHANGED <<body, sent, responses, sanVars>>

\* a handler that calls sendEmail once more after a failure
ResumeRetry(r) ==
  /\ pc[r] = "settled"
  /\ IF outcome[r].kind = "resolved"
     THEN /\ responses' = [responses EXCEPT ![r] = Append(@, Response(200, TRUE, SuccessMsg))]
          /\ pc' = [pc EXCEPT ![r] = "done"]
          /\ UNCHANGED <<sent, outcome>>
     ELSE IF Len(sent[r]) < 2
     THEN /\ sent' = [sent EXCEPT ![r] = Append(@, @[1])]
          /\ outcome' = [outcome EXCEPT ![r] = Pending]
          /\ pc' = [pc EXCEPT ![r] = "awaiting"]
          /\ UNCHANGED responses
     ELSE /\ responses' = [responses EXCEPT ![r] = Append(@, Response(500, FALSE, errorMessage(outcome[r].err)))]
          /\ pc' = [pc EXCEPT ![r] = "done"]
          /\ UNCHANGED <<sent, outcome>>
  /\ UNCHANGED <<body, sanVars>>

\* a handler whose catch block sends no response
ResumeSwallow(r) ==
  /\ pc[r] = "settled"
  /\ IF outcome[r].kind = "resolved"
     THEN responses' = [responses EXCEPT ![r] = Append(@, Response(200, TRUE, SuccessMsg))]
     ELSE UNCHANGED responses
  /\ pc' = [pc EXCEPT ![r] = "done"]
  /\ UNCHANGED <<body, sent, outcome, sanVars>>

\* the handler of request r continues after the await: the success response,
\* or the catch block's response
Resume(r) ==
  /\ pc[r] = "settled"
  /\ IF outcome[r].kind = "resolved"
     THEN responses' = [responses EXCEPT ![r] = Append(@, Response(200, TRUE, SuccessMsg))]
     ELSE responses' = [responses EXCEPT ![r] = Append(@, Response(500, FALSE, errorMessage(outcome[r].err)))]
  /\ pc' = [pc EXCEPT ![r] = "done"]
  /\ UNCHANGED <<body, sent, outcome, sanVars>>

\* one request, every body
Next ==
  \/ pc[1] = "idle" /\ \E b \in Bodies : Arrive(1, b)
  \/ Handle(1)
  \/ \E o \in Outcomes : Settle(1, o)
  \/ Resume(1)

Spec == Init /\ [][Next]_vars

\* requests in flight together
NextConc ==
  \E r \in Reqs :
    \/ \E b \in ConcBodies : Arrive(r, b)
    \/ Handle(r)
    \/ \E o \in Outcomes : Settle(r, o)
    \/ Resume(r)

SpecConc == Init /\ [][NextConc]_vars

\* a step of a handler that is under way: its synchronous part, the
\* settling of its sendEmail call, its continuation after the await
Progress ==
  \E r \in Reqs : Handle(r) \/ (\E o \in Outcomes : Settle(r, o)) \/ Resume(r)

\* the event loop runs every handler that can continue, and every sendEmail
\* call settles (no handler step is ever taken back, so fairness of Progress
\* is fairness of each request's next step)
FairSpec == SpecConc /\ WF_vars(Progress)

(* ------------------------------ sanitizeInput alone -------------------- *)

SanInputs == NonStrings \cup {JsString(s) : s \in Strings(Chars, MaxLen)}

InitSan ==
  /\ body = [r \in Reqs |-> EmptyBody]
  /\ pc = [r \in Reqs |-> "idle"]
  /\ sent = [r \in Reqs |-> <<>>]
  /\ outcome = [r \in Reqs |-> NotCalled]
  /\ responses = [r \in Reqs |-> <<>>]
  /\ sIn \in SanInputs
  /\ sOut = <<>>

\* sanitizeInput(input)
Sanitize ==
  /\ sOut = <<>>
  /\ sOut' = <<sanitizeInput(sIn)>>
  /\ UNCHANGED <<sIn, reqVars>>

\* sanitizeInput(sanitizeInput(input))
Resanitize ==
  /\ Len(sOut) = 1
  /\ sOut' = Append(sOut, sanitizeInput(JsString(sOut[1])))
  /\ UNCHANGED <<sIn, reqVars>>

NextSan == Sanitize \/ Resanitize

SpecSan == InitSan /\ [][NextSan]_vars

(* ------------------------------ properties ----------------------------- *)

\* the shape <non-space-non-@>+ @ <non-space-non-@>+ . <non-space-non-@>+
EmailShape(s) ==
  \E i \in 2..Len(s), j \in 2..Len(s) :
    /\ i + 2 <= j
    /\ j + 1 <= Len(s)
    /\ s[i] = "@"
    /\ s[j] = "."
    /\ \A k \in 1..Len(s) : k # i => ~IsSpace(s[k]) /\ s[k] # "@"

RequiredPresent(b) ==
  Truthy(b.name) /\ Truthy(b.email) /\ Truthy(b.subject) /\ Truthy(b.message)

Handled(r) == pc[r] \in {"awaiting", "settled", "done"}

HasStatus(r, status) ==
  \E i \in 1..Len(responses[r]) : responses[r][i].status = status

HasMessage(r, message) ==
  \E i \in 1..Len(responses[r]) : responses[r][i].message = message

\* C1: sendEmail is invoked for a request only if name, email, subject and
\* message are all truthy and the email has the valid shape; a request
\* answered with a 400 never had sendEmail invoked.
C1_SendOnlyAfterValidation ==
  \A r \in Reqs :
    /\ sent[r] # <<>> =>
         RequiredPresent(body[r]) /\ EmailShape(ToString(body[r].email))
    /\ HasStatus(r, 400) => sent[r] = <<>>

C1_Witness ==
  /\ sent[1] # <<>>
  /\ pc[1] = "done"
  /\ body[1].name = JsString(<<"<">>)

\* C2: a body in which name, email, subject or message is absent or falsy is
\* answered with exactly 400 {success:false, missing-fields message},
\* whatever the other fields are; a body in which only phone is absent never
\* gets the missing-fields response.
C2_MissingFields ==
  \A r \in Reqs :
    Handled(r) =>
      /\ ~RequiredPresent(body[r]) =>
           responses[r] = <<Response(400, FALSE, MissingMsg)>>
      /\ RequiredPresent(body[r]) /\ ~Truthy(body[r].phone) =>
           ~HasMessage(r, MissingMsg)

C2_Witness ==
  /\ pc[1] = "done"
  /\ body[1].message = JsZero
  /\ body[1].email = JsString(<<"a">>)
  /\ Truthy(body[1].name)
  /\ Truthy(body[1].subject)
  /\ responses[1] = <<Response(400, FALSE, MissingMsg)>>

C4_SanitizedAndTrimmed ==
  sOut # <<>> =>
    IF sIn.t = "string"
    THEN /\ \A k \in 1..Len(sOut[1]) : ~IsBracket(sOut[1][k])
         /\ sOut[1] # <<>> =>
              ~IsSpace(sOut[1][1]) /\ ~IsSpace(sOut[1][Len(sOut[1])])
    ELSE sOut[1] = <<>>

\* C5: sanitizeInput(sanitizeInput(x)) = sanitizeInput(x) for every string x.
C5_Idempotent ==
  sIn.t = "string" /\ Len(sOut) = 2 => sOut[2] = sOut[1]

\* C6: when sendEmail fails, the response is exactly 500 {success:false} with
\* the authentication message if the error's code is EAUTH and the generic
\* try-again message otherwise, and never the error's own message.
C6_FailureResponse ==
  \A r \in Reqs :
    pc[r] = "done" /\ outcome[r].kind = "rejected" =>
      /\ responses[r] =
           <<Response(500, FALSE,
                      IF outcome[r].err.code = "EAUTH" THEN AuthMsg ELSE RetryMsg)>>
      /\ ~HasMessage(r, outcome[r].err.message)

C6_Witness ==
  /\ pc[1] = "done"
  /\ outcome[1].kind = "rejected"
  /\ outcome[1].err.code = "ECONNECTION"
  /\ responses[1] = <<Response(500, FALSE, RetryMsg)>>

\* C7: a request has the response 200 {success:true, "Email sent
\* successfully"} if and only if sendEmail was invoked for it and resolved
\* (and the handler has resumed); the success response is never there while
\* the call is pending.
C7_SuccessIffResolved ==
  \A r \in Reqs :
    /\ HasStatus(r, 200) =>
         /\ sent[r] # <<>>
         /\ outcome[r].kind = "resolved"
         /\ responses[r] = <<Response(200, TRUE, SuccessMsg)>>
    /\ pc[r] = "done" /\ sent[r] # <<>> /\ outcome[r].kind = "resolved" =>
         responses[r] = <<Response(200, TRUE, SuccessMsg)>>

C7_Witness ==
  /\ pc[1] = "done"
  /\ outcome[1].kind = "resolved"
  /\ responses[1] = <<Response(200, TRUE, SuccessMsg)>>

C8_Step ==
  \A r \in Reqs :
    /\ Len(sent'[r]) <= 1
    /\ outcome[r].kind = "rejected" =>
         /\ sent'[r] = sent[r]
         /\ pc'[r] # pc[r] =>
              /\ pc'[r] = "done"
              /\ Len(responses'[r]) = Len(responses[r]) + 1
              /\ responses'[r][Len(responses'[r])].status = 500

\* C8: sendEmail is invoked at most once for a request, and the step that
\* follows a failure of the call is the 500 response, never another call.
C8_NoRetry == [][C8_Step]_vars

C8_Witness ==
  /\ pc[1] = "done"
  /\ outcome[1].kind = "rejected"
  /\ Len(sent[1]) = 1
  /\ HasStatus(1, 500)

\* C9: every mail handed to sendEmail embeds a non-empty sanitized name,
\* subject and message and a sanitized email of the valid shape.
C9_SubmissionDataModel ==
  \A r \in Reqs :
    \A i \in 1..Len(sent[r]) :
      /\ sent[r][i].name # <<>>
      /\ sent[r][i].subjectText # <<>>
      /\ sent[r][i].message # <<>>
      /\ EmailShape(sent[r][i].email)

\* the response request r is due, from its own body and its own sendEmail
\* outcome alone
OwnResponse(b, o) ==
  IF ~RequiredPresent(b) THEN Response(400, FALSE, MissingMsg)
  ELSE IF ~EmailShape(ToString(b.email)) THEN Response(400, FALSE, InvalidMsg)
  ELSE IF o.kind = "resolved" THEN Response(200, TRUE, SuccessMsg)
  ELSE IF o.err.code = "EAUTH" THEN Response(500, FALSE, AuthMsg)
  ELSE Response(500, FALSE, RetryMsg)

C10_AtMostOne ==
  \A r \in Reqs :
    /\ Len(responses[r]) <= 1
    /\ pc[r] = "done" => responses[r] = <<OwnResponse(body[r], outcome[r])>>
    /\ pc[r] # "done" => responses[r] = <<>>

\* C10: every request gets exactly one response, the one its own body and its
\* own sendEmail outcome determine, and gets it eventually when the sendEmail
\* call settles, with requests in flight together.
C10_ExactlyOneResponse ==
  /\ []C10_AtMostOne
  /\ \A r \in Reqs : (pc[r] = "received") ~> (Len(responses[r]) = 1)

C10_Witness ==
  /\ pc[1] = "awaiting"
  /\ pc[2] = "done"
  /\ outcome[2].kind = "rejected"
  /\ Len(responses[2]) = 1

====
